---- MODULE Spec2Model ----
(***************************************************************************)
(* Model of pdp_checker.py: one run of main().  The spreadsheet, the       *)
(* browser and the mail server are the environment: every call into them   *)
(* may succeed or raise, and every read of the live page returns whatever  *)
(* the page holds at that moment.  Texts are sequences of characters (a    *)
(* few fixed words are kept as one token each).                            *)
(***************************************************************************)
EXTENDS Integers, Sequences, FiniteSets, TLC

VARIABLES
    pc,            \* position of main()
    ENABLE_EMAIL_NOTIFICATIONS, \* config flag read by send_error_email
    headerAtStart, \* history: row DATE_HEADER_ROW of the worksheet when the run starts
    headerRow,     \* row DATE_HEADER_ROW of the worksheet
    sheetD,        \* cells of the query range of column PDP_QUERIES_COLUMN
    colsInserted,  \* indices at which insert_cols inserted a column
    target_col,    \* main's target_col (0: not assigned)
    queries,       \* main's queries list
    origin,        \* history: origin[k] is the offset of the sheet row queries[k] was read from
    i,             \* the loop index of enumerate(queries)
    result_count,  \* main's result_count (a Python value)
    driver,        \* "none" (driver = None), "open", "quit"
    alert_sent,    \* handle_captcha's local
    elapsed,       \* handle_captcha: time.time() - start_time, in check intervals
    episode,       \* history of the current/last handle_captcha call
    writeLog,      \* history: the update_cell calls of the loop that succeeded
    searches,      \* history: number of driver.get navigations of the loop
    skipped,       \* history: loop indices whose search box was not found
    sinceDelay,    \* history: navigations since the last between-query delay
    crashed,       \* the except clause of main was entered
    crashCalls,    \* send_error_email calls made by the except clause
    outbox         \* messages handed to the SMTP server

vars == <<pc, ENABLE_EMAIL_NOTIFICATIONS, headerAtStart, headerRow, sheetD,
          colsInserted, target_col, queries, origin, i, result_count, driver,
          alert_sent, elapsed, episode, writeLog, searches, skipped,
          sinceDelay, crashed, crashCalls, outbox>>

----------------------------------------------------------------------------
(* Bounds of the model and constants of the program *)

MaxRows == 3                 \* rows in the query range (PDP_START_ROW..PDP_END_ROW)
MaxHeaderLen == 3            \* cells of the header row in SpecHeader
CAPTCHA_WAIT_TIMEOUT == 2    \* config value, in units of CAPTCHA_CHECK_INTERVAL

PDP_START_ROW == 4
\* the range of the model is MaxRows rows long
PDP_END_ROW == PDP_START_ROW + MaxRows - 1

----------------------------------------------------------------------------
(* Texts *)

Digits == {"0", "1", "2", "5", "6", "7"}

EmptyText == <<>>
NO_RESULTS_TEXT == "No results found for"
ScrapeFailed == <<"Scrape Failed">>
CaptchaFailed == <<"CAPTCHA FAILED">>
Zero == <<"0">>
NoneText == <<"None">>
Today == <<"0", "5", "-", "Nov", "-", "2", "0", "2", "6">>

\* str.strip(): leading and trailing whitespace removed
RECURSIVE LStrip(_)
LStrip(s) == IF s # <<>> /\ Head(s) = " " THEN LStrip(Tail(s)) ELSE s

RECURSIVE RStrip(_)
RStrip(s) ==
    IF s # <<>> /\ s[Len(s)] = " " THEN RStrip(SubSeq(s, 1, Len(s) - 1)) ELSE s

Strip(s) == RStrip(LStrip(s))

\* Python values: a str, None
PyStr(s) == [kind |-> "str", val |-> s]
PyNone == [kind |-> "none", val |-> <<>>]
Raised == [kind |-> "raise", val |-> <<>>]

\* str(result_count) at the update_cell call
Str(v) == IF v.kind = "none" THEN NoneText ELSE v.val

----------------------------------------------------------------------------
(* prepare_sheet_and_get_target_column: the header scan *)

HasChar(cell, chars) == \E k \in 1..Len(cell) : cell[k] \in chars

\* re.search(r'\d', cell_value) and ('-' in cell_value or '/' in cell_value)
IsDateLike(cell) ==
    HasChar(cell, Digits) /\ (HasChar(cell, {"-"}) \/ HasChar(cell, {"/"}))

\* for i, cell_value in enumerate(date_row_values): ... last_tracking_col_index = i + 1
\* (k is the 1-based position of the cell the loop is at)
RECURSIVE ScanHeader(_, _, _)
ScanHeader(row, k, last) ==
    IF k > Len(row) THEN last
    ELSE ScanHeader(row, k + 1, IF IsDateLike(row[k]) THEN k ELSE last)

\* a scan that keeps the first date-like cell instead of the last
first_tracking_col_index(row) ==
    IF \E k \in 1..Len(row) : IsDateLike(row[k])
    THEN CHOOSE k \in 1..Len(row) :
            IsDateLike(row[k]) /\ \A j \in 1..(k - 1) : ~IsDateLike(row[j])
    ELSE 0

last_tracking_col_index(row) == ScanHeader(row, 1, 0)

\* worksheet.insert_cols([[]], col=c): an empty column at 1-based index c
InsertCol(row, c) ==
    SubSeq(row, 1, c - 1) \o <<EmptyText>> \o SubSeq(row, c, Len(row))

\* worksheet.update_cell(DATE_HEADER_ROW, c, text) on the header row
SetCell(row, c, text) == [row EXCEPT ![c] = text]

----------------------------------------------------------------------------
(* main: fetching the queries *)

\* query_range: offsets of the rows PDP_START_ROW..PDP_END_ROW in the range
Offsets == 1..(PDP_END_ROW - PDP_START_ROW + 1)
RowOf(off) == PDP_START_ROW + off - 1

\* worksheet.get(range): one list per row up to the last row that holds a
\* value; a row with no value is the empty list, a row with a value is [value]
LastFilled(col) ==
    IF \E k \in DOMAIN col : col[k] # EmptyText
    THEN CHOOSE k \in DOMAIN col :
            /\ col[k] # EmptyText
            /\ \A m \in DOMAIN col : col[m] # EmptyText => m <= k
    ELSE 0

WorksheetGet(col) ==
    [k \in 1..LastFilled(col) |->
        IF col[k] = EmptyText THEN <<>> ELSE <<col[k]>>]

\* [item[0] for item in queries_data if item], with the offset each kept item had
RECURSIVE KeptOffsets(_, _)
KeptOffsets(data, k) ==
    IF k > Len(data) THEN <<>>
    ELSE (IF data[k] # <<>> THEN <<k>> ELSE <<>>) \o KeptOffsets(data, k + 1)

QueriesOf(data) ==
    LET kept == KeptOffsets(data, 1)
    IN  [n \in 1..Len(kept) |-> data[kept[n]][1]]

----------------------------------------------------------------------------
(* scrape_result_count *)

CountChars == Digits \cup {","}
\* the literal "result" of the pattern, matched with re.IGNORECASE, as it
\* occurs at the start of these words
ResultWords == {"result", "results", "Results", "RESULT"}

\* a match of ([\d,]+) result starting at s and whose group ends at e
MatchAt(text, s, e) ==
    /\ 1 <= s /\ s <= e /\ e + 2 <= Len(text)
    /\ \A k \in s..e : text[k] \in CountChars
    /\ text[e + 1] = " "
    /\ text[e + 2] \in ResultWords

\* re.search: the leftmost match; group(1) or None
ReSearchCount(text) ==
    LET starts == {s \in 1..Len(text) : \E e \in s..Len(text) : MatchAt(text, s, e)}
    IN  IF starts = {} THEN PyNone
        ELSE LET s == CHOOSE x \in starts : \A y \in starts : x <= y
                 e == CHOOSE x \in s..Len(text) : MatchAt(text, s, x)
             IN  PyStr(SubSeq(text, s, e))

\* Pages: the markers a read of driver.page_source finds in the page
Markers == {"reCAPTCHA", "unusual traffic", NO_RESULTS_TEXT}
Pages == SUBSET Markers
\* the same, for the reads that look for the two block markers only
BlockPages == SUBSET {"reCAPTCHA", "unusual traffic"}

StatsTexts ==
    { <<"About", " ", "7", "1", ",", "6", "0", " ", "results", " ", "(0.42 seconds)">>,
      <<"0", " ", "Results">>,
      <<"About", " ", "5", " ", "items">>,
      <<"No", " ", "results">>,
      <<>> }

\* What the browser does during one call: exc is the first exception raised
\* inside the try block ("none": all four operations succeeded and the
\* element's text is text); page is what driver.page_source reads in the
\* timeout branch, where pageRaises says that this read raises.  Fields that
\* the call never looks at are left at one value.
ScrapeEvents ==
    [exc : {"none"}, text : StatsTexts, page : {{}}, pageRaises : {FALSE}]
    \cup [exc : {"Timeout", "ClickIntercepted"}, text : {<<>>}, page : Pages,
          pageRaises : {FALSE}]
    \cup [exc : {"Timeout", "ClickIntercepted"}, text : {<<>>}, page : {{}},
          pageRaises : {TRUE}]
    \cup [exc : {"Other"}, text : {<<>>}, page : {{}}, pageRaises : {FALSE}]

scrape_result_count(ev) ==
    IF ev.exc = "none" THEN
        LET match == ReSearchCount(ev.text)
        IN  IF match.kind = "str" /\ match.val # <<>> THEN match
            ELSE PyNone  \* the function ends without a return statement
    ELSE IF ev.exc \in {"Timeout", "ClickIntercepted"} THEN
        IF ev.pageRaises THEN Raised
        ELSE IF NO_RESULTS_TEXT \in ev.page THEN PyStr(Zero)
        ELSE PyStr(ScrapeFailed)
    ELSE PyStr(ScrapeFailed)

----------------------------------------------------------------------------
(* send_error_email: the number of messages handed to the server.  The SMTP
   exchange may raise, which the function swallows. *)
send_error_email(enabled, smtpOk) == IF enabled /\ smtpOk THEN 1 ELSE 0

----------------------------------------------------------------------------
(* Initial states *)

\* Cells of the query column: no value, whitespace only, a query
QueryCells == { EmptyText, <<" ">>, <<"q">> }

\* Cells of the header row
HeaderCells ==
    { EmptyText, <<"7">>, <<"n", "/", "a">>,
      <<"0", "1", "-", "J", "a", "n">>, <<"1", "/", "7">> }

HeaderRows == UNION { [1..n -> HeaderCells] : n \in 0..MaxHeaderLen }

\* the header row ["", "", "01-Jan-24", "15-Jan-24", ""]
ScenarioHeader ==
    << EmptyText, EmptyText, <<"0", "1", "-", "J", "a", "n">>,
       <<"1", "5", "-", "J", "a", "n">>, EmptyText >>

NoEpisode == [outcome |-> "none", polls |-> 0, blocked |-> 0, calls |-> 0,
              pages |-> <<>>]

InitRun ==
    /\ pc = "connect"
    /\ ENABLE_EMAIL_NOTIFICATIONS \in BOOLEAN
    /\ headerRow = headerAtStart
    /\ colsInserted = <<>>
    /\ target_col = 0
    /\ queries = <<>>
    /\ origin = <<>>
    /\ i = 0
    /\ result_count = PyNone
    /\ driver = "none"
    /\ alert_sent = FALSE
    /\ elapsed = 0
    /\ episode = NoEpisode
    /\ writeLog = <<>>
    /\ searches = 0
    /\ skipped = {}
    /\ sinceDelay = 0
    /\ crashed = FALSE
    /\ crashCalls = 0
    /\ outbox = 0

\* any contents of the query range, under the header row of the scenario
Init ==
    /\ headerAtStart = ScenarioHeader
    /\ sheetD \in [Offsets -> QueryCells]
    /\ InitRun

\* any header row, over a query range with one query, in its first row
InitHeader ==
    /\ headerAtStart \in HeaderRows
    /\ sheetD = [k \in Offsets |-> IF k = 1 THEN <<"q">> ELSE EmptyText]
    /\ InitRun
    /\ ENABLE_EMAIL_NOTIFICATIONS

----------------------------------------------------------------------------
(* main, lines 184-196: set-up *)

\* raise inside main's try block: control goes to the except clause
RaiseToTop == pc' = "except"

\* connect_to_google_sheets, open_by_key, worksheet
Connect ==
    /\ pc = "connect"
    /\ \E ok \in BOOLEAN : IF ok THEN pc' = "prepare" ELSE RaiseToTop
    /\ UNCHANGED <<ENABLE_EMAIL_NOTIFICATIONS, headerAtStart, headerRow, sheetD,
                   colsInserted, target_col, queries, origin, i, result_count,
                   driver, alert_sent, elapsed, episode, writeLog, searches,
                   skipped, sinceDelay, crashed, crashCalls, outbox>>

\* prepare_sheet_and_get_target_column; failing names the call that raises
PrepareSheet ==
    /\ pc = "prepare"
    /\ \E failing \in {"none", "row_values", "insert_cols", "update_cell"} :
        LET date_row_values == headerRow
            last == last_tracking_col_index(date_row_values)
            new_col_index == last + 1
        IN  IF failing = "row_values" \/ last = 0 \/ failing = "insert_cols" THEN
                /\ RaiseToTop
                /\ UNCHANGED <<headerRow, colsInserted, target_col>>
            ELSE IF failing = "update_cell" THEN
                /\ RaiseToTop
                /\ headerRow' = InsertCol(headerRow, new_col_index)
                /\ colsInserted' = Append(colsInserted, new_col_index)
                /\ UNCHANGED target_col
            ELSE
                /\ pc' = "fetch"
                /\ headerRow' = SetCell(InsertCol(headerRow, new_col_index),
                                        new_col_index, Today)
                /\ colsInserted' = Append(colsInserted, new_col_index)
                /\ target_col' = new_col_index
    /\ UNCHANGED <<ENABLE_EMAIL_NOTIFICATIONS, headerAtStart, sheetD, queries,
                   origin, i, result_count, driver, alert_sent, elapsed,
                   episode, writeLog, searches, skipped, sinceDelay, crashed,
                   crashCalls, outbox>>

\* queries_data = worksheet.get(query_range); queries = [...]
FetchQueries ==
    /\ pc = "fetch"
    /\ \E ok \in BOOLEAN :
        IF ok THEN
            LET queries_data == WorksheetGet(sheetD)
            IN  /\ queries' = QueriesOf(queries_data)
                /\ origin' = KeptOffsets(queries_data, 1)
                /\ pc' = "webdriver"
        ELSE /\ RaiseToTop
             /\ UNCHANGED <<queries, origin>>
    /\ UNCHANGED <<ENABLE_EMAIL_NOTIFICATIONS, headerAtStart, headerRow, sheetD,
                   colsInserted, target_col, i, result_count, driver,
                   alert_sent, elapsed, episode, writeLog, searches, skipped,
                   sinceDelay, crashed, crashCalls, outbox>>

\* driver = get_webdriver()
GetWebdriver ==
    /\ pc = "webdriver"
    /\ \E ok \in BOOLEAN :
        IF ok THEN driver' = "open" /\ pc' = "loop"
        ELSE RaiseToTop /\ UNCHANGED driver
    /\ UNCHANGED <<ENABLE_EMAIL_NOTIFICATIONS, headerAtStart, headerRow, sheetD,
                   colsInserted, target_col, queries, origin, i, result_count,
                   alert_sent, elapsed, episode, writeLog, searches, skipped,
                   sinceDelay, crashed, crashCalls, outbox>>

----------------------------------------------------------------------------
(* main, lines 198-227: the loop over enumerate(queries) *)

Min(a, b) == IF a <= b THEN a ELSE b

\* Two successive reads of driver.page_source by one test: either a read
\* raises, or the reads return p1 and p2
PageReads ==
    [raises : {TRUE}, p1 : {{}}, p2 : {{}}]
    \cup [raises : {FALSE}, p1 : BlockPages, p2 : BlockPages]

\* a test that is satisfied when either marker is gone
CaptchaGoneEither(p1, p2) == "reCAPTCHA" \notin p1 \/ "unusual traffic" \notin p2

\* "reCAPTCHA" not in driver.page_source and "unusual traffic" not in driver.page_source
CaptchaGone(p1, p2) == "reCAPTCHA" \notin p1 /\ "unusual traffic" \notin p2

\* an alert on every poll
ShouldAlertAlways(sent) == TRUE

\* if not alert_sent
ShouldAlert(sent) == ~sent

\* the SMTP exchange succeeds or raises; nothing is sent once alert_sent is set
SmtpOutcomes(sent) == IF sent THEN {TRUE} ELSE BOOLEAN

\* time one iteration of the polling loop takes, in check intervals: the
\* sleep, plus what the page reads and the mail take
SleepTimes(ev) ==
    IF ev.raises \/ CaptchaGone(ev.p1, ev.p2) THEN {1} ELSE {1, 2}

query == queries[i + 1]
\* the row index taken one too far
current_row_off_by_one == PDP_START_ROW + i + 1

current_row == PDP_START_ROW + i

\* the for statement and the test of the empty query
LoopHead ==
    /\ pc = "loop"
    /\ IF i >= Len(queries) THEN
            pc' = "finally" /\ UNCHANGED result_count
       ELSE IF Strip(query) = EmptyText THEN
            result_count' = PyStr(EmptyText) /\ pc' = "write"
       ELSE pc' = "navigate" /\ UNCHANGED result_count
    /\ UNCHANGED <<ENABLE_EMAIL_NOTIFICATIONS, headerAtStart, headerRow, sheetD,
                   colsInserted, target_col, queries, origin, i, driver,
                   alert_sent, elapsed, episode, writeLog, searches, skipped,
                   sinceDelay, crashed, crashCalls, outbox>>

\* driver.get("https://www.google.com")
Navigate ==
    /\ pc = "navigate"
    /\ searches' = searches + 1
    /\ sinceDelay' = Min(sinceDelay + 1, 2)
    /\ \E ok \in BOOLEAN : IF ok THEN pc' = "search" ELSE RaiseToTop
    /\ UNCHANGED <<ENABLE_EMAIL_NOTIFICATIONS, headerAtStart, headerRow, sheetD,
                   colsInserted, target_col, queries, origin, i, result_count,
                   driver, alert_sent, elapsed, episode, writeLog, skipped,
                   crashed, crashCalls, outbox>>

\* if not find_and_type_in_search_box(driver, query): continue
FindAndType ==
    /\ pc = "search"
    /\ \E outcome \in {"typed", "TimeoutException", "other exception"} :
        IF outcome = "typed" THEN
            pc' = "check" /\ UNCHANGED <<i, skipped>>
        ELSE IF outcome = "TimeoutException" THEN
            /\ skipped' = skipped \cup {i}
            /\ i' = i + 1
            /\ pc' = "loop"
        ELSE RaiseToTop /\ UNCHANGED <<i, skipped>>
    /\ UNCHANGED <<ENABLE_EMAIL_NOTIFICATIONS, headerAtStart, headerRow, sheetD,
                   colsInserted, target_col, queries, origin, result_count,
                   driver, alert_sent, elapsed, episode, writeLog, searches,
                   sinceDelay, crashed, crashCalls, outbox>>

\* the test of line 213 (a or b reads page_source twice), and the first two
\* statements of handle_captcha when it is true
CheckPage ==
    /\ pc = "check"
    /\ \E ev \in PageReads :
        LET raises == ev.raises
            p1 == ev.p1
            p2 == ev.p2
        IN
        IF raises THEN
            RaiseToTop /\ UNCHANGED <<alert_sent, elapsed, episode>>
        ELSE IF "unusual traffic" \in p1 \/ "reCAPTCHA" \in p2 THEN
            /\ pc' = "captcha"
            /\ alert_sent' = FALSE
            /\ elapsed' = 0
            /\ episode' = [NoEpisode EXCEPT !.outcome = "WAITING"]
        ELSE pc' = "scrape" /\ UNCHANGED <<alert_sent, elapsed, episode>>
    /\ UNCHANGED <<ENABLE_EMAIL_NOTIFICATIONS, headerAtStart, headerRow, sheetD,
                   colsInserted, target_col, queries, origin, i, result_count,
                   driver, writeLog, searches, skipped, sinceDelay, crashed,
                   crashCalls, outbox>>

\* handle_captcha: one iteration of the while loop.  The loop test reads
\* page_source once for each marker; the sleep and the calls before it take
\* at least one check interval.
CaptchaPoll ==
    /\ pc = "captcha"
    /\ elapsed < CAPTCHA_WAIT_TIMEOUT
    /\ \E ev \in PageReads, smtpOk \in SmtpOutcomes(alert_sent) :
      \E slept \in SleepTimes(ev) :
        LET raises == ev.raises
            p1 == ev.p1
            p2 == ev.p2
        IN
        IF raises THEN
            /\ RaiseToTop
            /\ episode' = [episode EXCEPT !.outcome = "RAISED"]
            /\ UNCHANGED <<alert_sent, elapsed, outbox>>
        ELSE IF CaptchaGone(p1, p2) THEN
            \* return True, and main calls scrape_result_count
            /\ pc' = "scrape"
            /\ episode' = [episode EXCEPT !.outcome = "SOLVED",
                                          !.polls = @ + 1,
                                          !.pages = <<p1, p2>>]
            /\ UNCHANGED <<alert_sent, elapsed, outbox>>
        ELSE
            /\ pc' = "captcha"
            /\ alert_sent' = TRUE
            /\ outbox' = IF ShouldAlert(alert_sent)
                         THEN outbox + send_error_email(ENABLE_EMAIL_NOTIFICATIONS, smtpOk)
                         ELSE outbox
            /\ elapsed' = Min(elapsed + slept, CAPTCHA_WAIT_TIMEOUT)
            /\ episode' = [episode EXCEPT !.polls = @ + 1,
                                          !.blocked = @ + 1,
                                          !.calls = IF ShouldAlert(alert_sent) THEN @ + 1 ELSE @,
                                          !.pages = <<p1, p2>>]
    /\ UNCHANGED <<ENABLE_EMAIL_NOTIFICATIONS, headerAtStart, headerRow, sheetD,
                   colsInserted, target_col, queries, origin, i, result_count,
                   driver, writeLog, searches, skipped, sinceDelay, crashed,
                   crashCalls>>

\* handle_captcha: the while test fails, return False; main sets the sentinel
CaptchaTimeout ==
    /\ pc = "captcha"
    /\ ~(elapsed < CAPTCHA_WAIT_TIMEOUT)
    /\ episode' = [episode EXCEPT !.outcome = "TIMED_OUT"]
    /\ result_count' = PyStr(CaptchaFailed)
    /\ pc' = "write"
    /\ UNCHANGED <<ENABLE_EMAIL_NOTIFICATIONS, headerAtStart, headerRow, sheetD,
                   colsInserted, target_col, queries, origin, i, driver,
                   alert_sent, elapsed, writeLog, searches, skipped,
                   sinceDelay, crashed, crashCalls, outbox>>

\* result_count = scrape_result_count(driver)
Scrape ==
    /\ pc = "scrape"
    /\ \E ev \in ScrapeEvents :
        LET r == scrape_result_count(ev)
        IN  IF r = Raised THEN RaiseToTop /\ UNCHANGED result_count
            ELSE result_count' = r /\ pc' = "write"
    /\ episode' = NoEpisode
    /\ UNCHANGED <<ENABLE_EMAIL_NOTIFICATIONS, headerAtStart, headerRow, sheetD,
                   colsInserted, target_col, queries, origin, i, driver,
                   alert_sent, elapsed, writeLog, searches, skipped,
                   sinceDelay, crashed, crashCalls, outbox>>

\* worksheet.update_cell(current_row, target_col, str(result_count))
WriteCell ==
    /\ pc = "write"
    /\ \E ok \in BOOLEAN :
        IF ok THEN
            /\ writeLog' = Append(writeLog,
                    [row |-> current_row, col |-> target_col,
                     val |-> Str(result_count), pos |-> i])
            /\ pc' = "delay"
        ELSE RaiseToTop /\ UNCHANGED writeLog
    /\ episode' = NoEpisode
    /\ UNCHANGED <<ENABLE_EMAIL_NOTIFICATIONS, headerAtStart, headerRow, sheetD,
                   colsInserted, target_col, queries, origin, i, result_count,
                   driver, alert_sent, elapsed, searches, skipped, sinceDelay,
                   crashed, crashCalls, outbox>>

\* time.sleep(random.uniform(between_queries...)), the end of the loop body
Delay ==
    /\ pc = "delay"
    /\ sinceDelay' = 0
    /\ i' = i + 1
    /\ pc' = "loop"
    /\ UNCHANGED <<ENABLE_EMAIL_NOTIFICATIONS, headerAtStart, headerRow, sheetD,
                   colsInserted, target_col, queries, origin, result_count,
                   driver, alert_sent, elapsed, episode, writeLog, searches,
                   skipped, crashed, crashCalls, outbox>>

----------------------------------------------------------------------------
(* main, lines 229-237 *)

\* the handler as it would be inside the loop body: the loop goes on
ExceptClauseInLoop ==
    /\ pc = "except"
    /\ crashed' = TRUE
    /\ crashCalls' = crashCalls + 1
    /\ \E smtpOk \in BOOLEAN :
         outbox' = outbox + send_error_email(ENABLE_EMAIL_NOTIFICATIONS, smtpOk)
    /\ pc' = IF driver = "open" THEN "delay" ELSE "finally"
    /\ UNCHANGED <<ENABLE_EMAIL_NOTIFICATIONS, headerAtStart, headerRow, sheetD,
                   colsInserted, target_col, queries, origin, i, result_count,
                   driver, alert_sent, elapsed, episode, writeLog, searches,
                   skipped, sinceDelay>>

\* except Exception as e: ... send_error_email("... SCRIPT CRASHED", ...)
ExceptClause ==
    /\ pc = "except"
    /\ crashed' = TRUE
    /\ crashCalls' = crashCalls + 1
    /\ \E smtpOk \in BOOLEAN :
         outbox' = outbox + send_error_email(ENABLE_EMAIL_NOTIFICATIONS, smtpOk)
    /\ pc' = "finally"
    /\ UNCHANGED <<ENABLE_EMAIL_NOTIFICATIONS, headerAtStart, headerRow, sheetD,
                   colsInserted, target_col, queries, origin, i, result_count,
                   driver, alert_sent, elapsed, episode, writeLog, searches,
                   skipped, sinceDelay>>

\* the quit as the last statement of the try block instead of in finally
FinallyQuitOnSuccess ==
    /\ pc = "finally"
    /\ driver' = IF driver = "open" /\ ~crashed THEN "quit" ELSE driver
    /\ pc' = "done"
    /\ UNCHANGED <<ENABLE_EMAIL_NOTIFICATIONS, headerAtStart, headerRow, sheetD,
                   colsInserted, target_col, queries, origin, i, result_count,
                   alert_sent, elapsed, episode, writeLog, searches, skipped,
                   sinceDelay, crashed, crashCalls, outbox>>

\* finally: if driver: driver.quit()
FinallyClause ==
    /\ pc = "finally"
    /\ driver' = IF driver = "open" THEN "quit" ELSE driver
    /\ pc' = "done"
    /\ UNCHANGED <<ENABLE_EMAIL_NOTIFICATIONS, headerAtStart, headerRow, sheetD,
                   colsInserted, target_col, queries, origin, i, result_count,
                   alert_sent, elapsed, episode, writeLog, searches, skipped,
                   sinceDelay, crashed, crashCalls, outbox>>

Next ==
    \/ Connect
    \/ PrepareSheet
    \/ FetchQueries
    \/ GetWebdriver
    \/ LoopHead
    \/ Navigate
    \/ FindAndType
    \/ CheckPage
    \/ CaptchaPoll
    \/ CaptchaTimeout
    \/ Scrape
    \/ WriteCell
    \/ Delay
    \/ ExceptClause
    \/ FinallyClause

Spec == Init /\ [][Next]_vars

SpecHeader == InitHeader /\ [][Next]_vars

----------------------------------------------------------------------------
(* Properties *)

Rows(log) == {log[n].row : n \in 1..Len(log)}
FetchedRows == 1..LastFilled(sheetD)

\* C1: a run that ends normally (here even one in which every search box was
\* found) has written exactly one cell per row of the fetched range, and a
\* row whose query cell is empty or whitespace-only has the empty result in
\* its own row.
C1_OneResultPerFetchedRow ==
    (pc = "done" /\ ~crashed /\ skipped = {}) =>
        /\ Len(writeLog) = Cardinality(FetchedRows)
        /\ \A k \in FetchedRows :
              Strip(sheetD[k]) = EmptyText =>
                  \E n \in 1..Len(writeLog) :
                      writeLog[n].row = RowOf(k) /\ writeLog[n].val = EmptyText

\* C2: every cell write goes to the target column of the sheet row its query
\* text was read from, and no row is written twice.
C2_WriteRowIsSourceRow ==
    /\ \A n \in 1..Len(writeLog) :
          /\ writeLog[n].col = target_col
          /\ writeLog[n].row = RowOf(origin[writeLog[n].pos + 1])
    /\ \A n, m \in 1..Len(writeLog) : writeLog[n].row = writeLog[m].row => n = m

IsCountText(t) == t # <<>> /\ \A k \in 1..Len(t) : t[k] \in CountChars

\* C3: every value written to the sheet is a count, "0", "Scrape Failed",
\* "CAPTCHA FAILED" or "".
C3_ClosedResultKinds ==
    \A n \in 1..Len(writeLog) :
        \/ IsCountText(writeLog[n].val)
        \/ writeLog[n].val \in {Zero, ScrapeFailed, CaptchaFailed, EmptyText}

BrowserSteps == {"navigate", "search", "check", "captcha", "scrape"}

\* C4: a session that was created is released when the run ends, on every
\* exit path; it is created only after the sheet was prepared; every browser
\* step runs on a live session, and none after the release.
C4_SessionReleased ==
    /\ pc = "done" => driver # "open"
    /\ driver # "none" => target_col > 0 /\ headerRow[target_col] = Today
    /\ pc \in BrowserSteps => driver = "open"
    /\ driver = "quit" => pc = "done"

C4_Witness ==
    /\ pc = "done" /\ driver = "quit" /\ crashed
    /\ Len(writeLog) >= 1 /\ i < Len(queries)

EpisodeOver == episode.outcome \in {"SOLVED", "TIMED_OUT"}

\* C5 as stated: every CAPTCHA episode, solved or timed out, has made
\* exactly one notification call.
C5_ExactlyOneAlert == EpisodeOver => episode.calls = 1

\* C5 as amended: an episode makes at most one notification call, and exactly
\* one if and only if some poll of it found a block marker; an episode that
\* timed out made exactly one and its row's result is "CAPTCHA FAILED".
C5_OneAlertIfBlocked ==
    /\ episode.calls <= 1
    /\ EpisodeOver => episode.calls = (IF episode.blocked > 0 THEN 1 ELSE 0)
    /\ episode.outcome = "TIMED_OUT" =>
          /\ episode.calls = 1
          /\ pc = "write" /\ result_count = PyStr(CaptchaFailed)

C5_Witness ==
    /\ episode.outcome = "TIMED_OUT" /\ episode.polls >= 2 /\ episode.calls = 1

MatchesDatePattern(cell) ==
    /\ \E k \in 1..Len(cell) : cell[k] \in Digits
    /\ \E k \in 1..Len(cell) : cell[k] \in {"-", "/"}

DateColumns == {k \in 1..Len(headerAtStart) : MatchesDatePattern(headerAtStart[k])}

\* C6: the target column is one plus the index of the rightmost date-like cell
\* of the header row, the new column is inserted at that index and holds
\* today's date with every other cell kept; with no date-like cell nothing is
\* inserted or written and the run ends without a browser or a query.
C6_TargetColumn ==
    IF DateColumns = {} THEN
        /\ target_col = 0 /\ colsInserted = <<>> /\ headerRow = headerAtStart
        /\ driver = "none" /\ searches = 0 /\ queries = <<>> /\ writeLog = <<>>
        /\ pc \in {"connect", "prepare", "except", "finally", "done"}
    ELSE
        LET m == CHOOSE k \in DateColumns : \A j \in DateColumns : j <= k
        IN  /\ colsInserted \in {<<>>, <<m + 1>>}
            /\ target_col \in {0, m + 1}
            /\ colsInserted = <<>> => headerRow = headerAtStart /\ target_col = 0
            /\ colsInserted # <<>> =>
                  /\ Len(headerRow) = Len(headerAtStart) + 1
                  /\ \A k \in 1..m : headerRow[k] = headerAtStart[k]
                  /\ \A k \in (m + 1)..Len(headerAtStart) :
                        headerRow[k + 1] = headerAtStart[k]
                  /\ headerRow[m + 1] = IF target_col = 0 THEN EmptyText ELSE Today
            /\ pc \notin {"connect", "prepare", "except", "finally", "done"} =>
                  target_col = m + 1

C6_Witness ==
    /\ pc = "done" /\ target_col > 0
    /\ Cardinality(DateColumns) >= 2
    /\ target_col <= Len(headerAtStart)

\* C7 as stated: every position the loop has moved past has its row's cell
\* written.
C7_EarlierRowsWritten ==
    \A k \in 0..(i - 1) : (PDP_START_ROW + k) \in Rows(writeLog)

\* C7 as amended: every position the loop has moved past has its row's cell
\* written, except the positions whose search box was not found.
C7_EarlierRowsWrittenUnlessSkipped ==
    \A k \in 0..(i - 1) :
        /\ k \in skipped \/ (PDP_START_ROW + k) \in Rows(writeLog)
        /\ ~(k \in skipped /\ (PDP_START_ROW + k) \in Rows(writeLog))

C7_Witness ==
    /\ crashed /\ i = 2 /\ skipped = {0}
    /\ Rows(writeLog) = {PDP_START_ROW + 1}

\* C8: once a failure has escaped to the top level no query is processed and
\* no cell is written any more, the handler runs once, and the run ends with
\* exactly one crash notification call if it failed and none if it did not.
C8_CaughtOnce ==
    [][ /\ (pc = "except" \/ crashed) =>
              /\ pc' \in {"finally", "done"}
              /\ crashed'
              /\ UNCHANGED <<writeLog, i, searches, headerRow, colsInserted>>
        /\ pc' = "done" => crashCalls' = (IF crashed' THEN 1 ELSE 0)
        /\ (pc' = "except") => ~crashed /\ crashCalls = 0 ]_vars

C8_Witness ==
    /\ pc = "done" /\ crashed /\ crashCalls = 1
    /\ Len(writeLog) = 1 /\ i = 1 /\ Len(queries) >= 2

BlockMarkerRead(pages) == "reCAPTCHA" \in pages[1] \/ "unusual traffic" \in pages[2]

\* C9: a step of the CAPTCHA handler either keeps waiting, with a marker read
\* and the time left strictly smaller, or ends solved at a poll that read no
\* marker, after which the same query is scraped, or ends timed out once the
\* timeout has elapsed, after which "CAPTCHA FAILED" is written for the same
\* query without a scrape; the loop then goes on to the next query.
C9_HandlerSteps ==
    [][ /\ pc = "captcha" =>
              /\ i' = i /\ elapsed <= CAPTCHA_WAIT_TIMEOUT
              /\ pc' \in {"captcha", "scrape", "write", "except"}
              /\ pc' = "captcha" =>
                    /\ elapsed < CAPTCHA_WAIT_TIMEOUT /\ elapsed' > elapsed
                    /\ BlockMarkerRead(episode'.pages)
                    /\ episode'.outcome = "WAITING"
              /\ pc' = "scrape" =>
                    /\ elapsed < CAPTCHA_WAIT_TIMEOUT
                    /\ ~BlockMarkerRead(episode'.pages)
                    /\ episode'.outcome = "SOLVED"
                    /\ episode'.polls = episode.blocked + 1
              /\ pc' = "write" =>
                    /\ elapsed >= CAPTCHA_WAIT_TIMEOUT
                    /\ episode'.outcome = "TIMED_OUT"
                    /\ episode'.polls = episode.blocked
                    /\ result_count' = PyStr(CaptchaFailed)
        /\ (pc = "write" /\ pc' # "except") =>
              /\ pc' = "delay"
              /\ writeLog' = Append(writeLog,
                    [row |-> PDP_START_ROW + i, col |-> target_col,
                     val |-> Str(result_count), pos |-> i])
        /\ pc = "delay" => pc' = "loop" /\ i' = i + 1 ]_vars

C9_Witness ==
    /\ pc = "scrape" /\ episode.outcome = "SOLVED" /\ episode.polls >= 2

\* C10: between the navigation for one query and the navigation for the next
\* there is always a between-query delay.
C10_DelayBetweenNavigations == sinceDelay <= 1

====
